---- MODULE Spec2Model ----
(***************************************************************************)
(* A model of the two interactive tools of the NoOffice repository:        *)
(*   mkpdf   (src/src/mkpdf/__main__.py)   documents -> Markdown through   *)
(*           the external markitdown command;                              *)
(*   ppt2pdf (src/src/ppt2pdf/__main__.py) PPTX -> PDF through PowerPoint  *)
(*           driven over COM.                                              *)
(* A run is one execution of a tool's main(): the operator's answers, the  *)
(* directory's contents and the outcome of every external call are the     *)
(* nondeterministic inputs.  Strings are sequences of one-character        *)
(* strings so that lower-casing, suffix tests, splitting and integer       *)
(* parsing are computed as Python computes them.                           *)
(***************************************************************************)
EXTENDS Integers, Sequences, FiniteSets, TLC

(***************************************************************************)
(* Bounds of the model.                                                    *)
(***************************************************************************)
\* Longest text the operator types at the selection prompt.
MaxInputLen == 3

(***************************************************************************)
(* Strings.                                                                *)
(***************************************************************************)
\* The characters that occur, in code-point order (str comparison order).
CodePoints ==
  << " ", ",", "-", ".", "0", "1", "2", "3", "A", "B", "C", "D", "F", "L",
     "P", "T", "X", "a", "b", "c", "d", "f", "l", "o", "p", "t", "u", "x" >>

Ord(c) == CHOOSE k \in 1..Len(CodePoints) : CodePoints[k] = c

\* str.lower() on one character.
LowerChar(c) ==
  CASE c = "A" -> "a" [] c = "B" -> "b" [] c = "C" -> "c" [] c = "D" -> "d"
    [] c = "F" -> "f" [] c = "L" -> "l" [] c = "P" -> "p" [] c = "T" -> "t"
    [] c = "X" -> "x" [] OTHER -> c

\* str.lower()
Lower(s) == [k \in 1..Len(s) |-> LowerChar(s[k])]

\* str.endswith(suffix)
EndsWith(s, suffix) ==
  /\ Len(suffix) <= Len(s)
  /\ SubSeq(s, Len(s) - Len(suffix) + 1, Len(s)) = suffix

\* str.strip(): leading and trailing blanks removed.
RECURSIVE Strip(_)
Strip(s) ==
  IF s = << >> THEN s
  ELSE IF Head(s) = " " THEN Strip(Tail(s))
  ELSE IF s[Len(s)] = " " THEN Strip(SubSeq(s, 1, Len(s) - 1))
  ELSE s

\* str.split(","): always at least one token; "" splits to [""].
RECURSIVE SplitFrom(_, _)
SplitFrom(s, cur) ==
  IF s = << >> THEN << cur >>
  ELSE IF Head(s) = "," THEN << cur >> \o SplitFrom(Tail(s), << >>)
  ELSE SplitFrom(Tail(s), Append(cur, Head(s)))

Split(s) == SplitFrom(s, << >>)

\* Strict lexicographic order of two strings by code point.
RECURSIVE StrLess(_, _)
StrLess(s, t) ==
  IF t = << >> THEN FALSE
  ELSE IF s = << >> THEN TRUE
  ELSE IF Head(s) # Head(t) THEN Ord(Head(s)) < Ord(Head(t))
  ELSE StrLess(Tail(s), Tail(t))

Digits == {"0", "1", "2", "3"}

DigitVal(c) == Ord(c) - Ord("0")

RECURSIVE DecimalValue(_, _)
DecimalValue(s, acc) ==
  IF s = << >> THEN acc ELSE DecimalValue(Tail(s), 10 * acc + DigitVal(Head(s)))

AllDigits(s) == s # << >> /\ \A k \in 1..Len(s) : s[k] \in Digits

\* int(tok) succeeds: blanks around the literal are ignored, one leading
\* minus sign is accepted, at least one digit must follow.
IsIntLiteral(tok) ==
  LET t == Strip(tok) IN
    \/ AllDigits(t)
    \/ t # << >> /\ Head(t) = "-" /\ AllDigits(Tail(t))

\* int(tok), for a token IsIntLiteral accepts.
IntOf(tok) ==
  LET t == Strip(tok) IN
    IF Head(t) = "-" THEN 0 - DecimalValue(Tail(t), 0) ELSE DecimalValue(t, 0)

(***************************************************************************)
(* The directory the operator names.  An entry is a name and a kind; the   *)
(* names are drawn from Pool.                                              *)
(***************************************************************************)
\* The name of the output folder when the operator keeps it inside the
\* input directory (the default answer of both tools).
OutName == << "o", "u", "t" >>

Pool ==
  << << "a", ".", "p", "p", "t", "x" >>,
     << "B", ".", "P", "P", "T", "X" >>,
     << "c", ".", "p", "d", "f" >>,
     OutName >>

Kinds == {"file", "dir"}

OutEntry == [name |-> OutName, kind |-> "dir"]

\* Every directory content over Pool: each name absent, a file or a folder;
\* the output folder, when present, is a folder.
Directories ==
  { { [name |-> Pool[k], kind |-> f[k]] : k \in {j \in DOMAIN Pool : f[j] # "absent"} } :
      f \in { g \in [DOMAIN Pool -> Kinds \cup {"absent"}] : g[Len(Pool)] # "file" } }

Names(es) == { e.name : e \in es }

\* Every order in which os.listdir may enumerate the names of a set.
Enumerations(S) ==
  { q \in [1..Cardinality(S) -> S] : \A x \in S : \E k \in DOMAIN q : q[k] = x }

(***************************************************************************)
(* ppt2pdf: get_ppt_files.                                                 *)
(***************************************************************************)
PptxPattern == << ".", "p", "p", "t", "x" >>

\* Path.glob("*.pptx"): the entries of the directory, of any kind, whose name
\* matches the pattern.  comtypes imports on Windows only (lines 22-29 exit
\* otherwise), and there pathlib matches names case-insensitively.
GlobPptx(es) == { n \in Names(es) : EndsWith(Lower(n), PptxPattern) }

\* Order of two WindowsPath objects: by case-folded name.
PathLess(a, b) == StrLess(Lower(a), Lower(b))

\* sorted(list(...)) of a set of paths.
SortedPaths(S) ==
  LET q == CHOOSE q \in Enumerations(S) : TRUE IN SortSeq(q, PathLess)

get_ppt_files(exists, es) == IF exists THEN SortedPaths(GlobPptx(es)) ELSE << >>

(***************************************************************************)
(* mkpdf: format choice and extension filter of main.                      *)
(***************************************************************************)
Choices == {"1", "2", "3", "4"}

\* format_choices[choice]["ext"]
FormatExt(choice) ==
  CASE choice = "1" -> << << ".", "p", "d", "f" >> >>
    [] choice = "2" -> << << ".", "d", "o", "c" >>, << ".", "d", "o", "c", "x" >> >>
    [] choice = "3" -> << << ".", "p", "p", "t" >>, << ".", "p", "p", "t", "x" >> >>
    [] OTHER -> << >>

\* What the operator may type at the extension prompt of choice "4".
ExtInputs ==
  { << >>,
    << ".", "P", "P", "T", "X" >>,
    << ".", "p", "d", "f", ",", " ", ".", "P", "P", "T", "X" >> }

\* [ext.strip() for ext in extensions_input.split(",")]
CustomExt(extensions_input) ==
  LET toks == Split(extensions_input) IN [k \in 1..Len(toks) |-> Strip(toks[k])]

\* [ext.lower() for ext in selected_format["ext"]]
LowerAll(exts) == [k \in 1..Len(exts) |-> Lower(exts[k])]

\* The inner loop of lines 72-75: some extension is a suffix of the name.
MatchesAny(file, exts) ==
  \E k \in 1..Len(exts) : EndsWith(Lower(file), exts[k])

\* The loop of lines 70-75 over os.listdir's sequence.
TargetFiles(listing, exts) ==
  LET Keep(file) == MatchesAny(file, exts) IN SelectSeq(listing, Keep)

(***************************************************************************)
(* ppt2pdf: select_ppt_files.                                              *)
(***************************************************************************)
\* The characters the operator types at the selection prompt.
Keys == {"0", "1", "2", ",", "-", " ", "a", "l"}

Texts == UNION { [1..n -> Keys] : n \in 0..MaxInputLen }

\* Prompt.ask returns the typed line stripped.
Inputs == { Strip(s) : s \in Texts }

\* A slip: the sentinel is taken to be the word instead of the digit.
IsSelectAllWord(sel) == Lower(sel) = << "a", "l", "l" >>

\* selection.lower() == "0"
IsSelectAll(sel) == Lower(sel) = << "0" >>

\* int(idx.strip()) raises ValueError for some token of the input.
RaisesValueError(sel) ==
  LET toks == Split(sel) IN \E k \in 1..Len(toks) : ~IsIntLiteral(toks[k])

\* indices = [int(idx.strip()) - 1 for idx in selection.split(",")]
IndicesOf(sel) ==
  LET toks == Split(sel) IN [k \in 1..Len(toks) |-> IntOf(toks[k]) - 1]

\* A slip: the lower bound of the range test is left out, so that a
\* negative index counts from the end of the list as Python indexes.
RECURSIVE PickNoLowerBound(_, _)
PickNoLowerBound(fs, indices) ==
  IF indices = << >> THEN << >>
  ELSE LET idx == Head(indices)
           rest == PickNoLowerBound(fs, Tail(indices))
       IN IF 0 <= idx /\ idx < Len(fs) THEN << fs[idx + 1] >> \o rest
          ELSE IF idx < 0 /\ 0 - idx <= Len(fs) THEN << fs[Len(fs) + idx + 1] >> \o rest
          ELSE rest

\* selected_files = [files[idx] for idx in indices if 0 <= idx < len(files)]
RECURSIVE Pick(_, _)
Pick(fs, indices) ==
  IF indices = << >> THEN << >>
  ELSE LET idx == Head(indices)
           rest == Pick(fs, Tail(indices))
       IN IF 0 <= idx /\ idx < Len(fs) THEN << fs[idx + 1] >> \o rest ELSE rest

\* A slip: the emptiness test of line 67 never fires.
NeverEmpty(sel_files) == FALSE

\* if not selected_files
IsEmptySelection(sel_files) == sel_files = << >>

(***************************************************************************)
(* State of one run.                                                       *)
(***************************************************************************)
VARIABLES
  tool,            \* which program runs: "mkpdf" or "ppt2pdf"
  pc,              \* position of main
  dirExists,       \* the directory the operator names exists
  entries,         \* its entries
  made,            \* directories this run has created: "in", "out"
  extensions,      \* mkpdf: extensions; ppt2pdf: the glob pattern's suffix
  files,           \* mkpdf: target_files; ppt2pdf: ppt_files / files
  selection,       \* select_ppt_files: the text Prompt.ask returned
  selected_files,  \* ppt2pdf: selected_files
  report,          \* last message main or the selector printed
  i,               \* 1-based position of the batch loop
  success_count,   \* mkpdf: success_count
  advanced,        \* ppt2pdf: progress.update(advance=1) calls
  invoked,         \* files handed to the converter, in call order
  results,         \* what each converter call reported: TRUE / FALSE
  powerpoint,      \* convert_pptx_to_pdf: "None" or "app"
  acquired,        \* PowerPoint instances CreateObject has returned
  quit_calls,      \* Quit() calls made on instances
  pending,         \* convert_pptx_to_pdf: what unwinds through finally
  exc,             \* exception that reached the outermost scope
  exit_code,       \* process exit status, NotExited while running
  traceback,       \* the interpreter printed a stack trace
  notice,          \* the cancellation notice of line 172 was printed
  tally            \* mkpdf line 93: << success_count, len(target_files) >>

vars ==
  << tool, pc, dirExists, entries, made, extensions, files, selection,
     selected_files, report, i, success_count, advanced, invoked, results,
     powerpoint, acquired, quit_calls, pending, exc, exit_code, traceback,
     notice, tally >>

Tools == {"mkpdf", "ppt2pdf"}

NotExited == 0 - 1

\* The files the batch loop iterates.
Batch == IF tool = "mkpdf" THEN files ELSE selected_files

\* PowerPoint instances acquired on which Quit has not been called.
Alive == acquired - quit_calls

Init ==
  /\ tool \in Tools
  /\ pc = "start"
  /\ dirExists \in BOOLEAN
  /\ entries \in Directories
  /\ (~dirExists => entries = {})
  /\ made = {}
  /\ extensions = << >>
  /\ files = << >>
  /\ selection = << >>
  /\ selected_files = << >>
  /\ report = "none"
  /\ i = 1
  /\ success_count = 0
  /\ advanced = 0
  /\ invoked = << >>
  /\ results = << >>
  /\ powerpoint = "None"
  /\ acquired = 0
  /\ quit_calls = 0
  /\ pending = "none"
  /\ exc = "none"
  /\ exit_code = NotExited
  /\ traceback = FALSE
  /\ notice = FALSE
  /\ tally = << >>

fsVars == << dirExists, entries, made >>
listVars == << extensions, files >>
selVars == << selection, selected_files >>
loopVars == << i, success_count, advanced, invoked, results >>
appVars == << powerpoint, acquired, quit_calls, pending >>
exitVars == << exc, exit_code, traceback, notice >>

(***************************************************************************)
(* How a run ends.                                                         *)
(***************************************************************************)
\* main returns: the module ends and the interpreter exits with status 0.
Return ==
  /\ pc' = "exit"
  /\ exit_code' = 0
  /\ UNCHANGED << exc, traceback, notice >>

\* An Exception leaves main.  ppt2pdf lines 173-175 print it and re-raise;
\* mkpdf lines 97-98 have no handler.  Either way the interpreter prints
\* the stack trace and exits with status 1.
RaiseException(e) ==
  /\ pc' = "exit"
  /\ exc' = e
  /\ traceback' = TRUE
  /\ exit_code' = 1
  /\ notice' = FALSE

\* KeyboardInterrupt leaves main.  ppt2pdf lines 171-172 print the notice and
\* fall off the end of the module (status 0); mkpdf has no handler, so the
\* interpreter prints the stack trace and exits with a non-zero status.
RaiseKeyboardInterrupt ==
  /\ pc' = "exit"
  /\ exc' = "KeyboardInterrupt"
  /\ IF tool = "ppt2pdf"
       THEN notice' = TRUE /\ traceback' = FALSE /\ exit_code' = 0
       ELSE notice' = FALSE /\ traceback' = TRUE /\ exit_code' = 1

(***************************************************************************)
(* Creating the output folder: os.makedirs(output_dir, exist_ok=True) and  *)
(* Path.mkdir(parents=True, exist_ok=True).                                *)
(***************************************************************************)
\* The output folder exists before the call.  Inside the input directory
\* that is read off its entries; elsewhere it is the operator's choice.
OutExists(under, elsewhere) ==
  IF under THEN dirExists /\ OutEntry \in entries ELSE elsewhere

\* The call creates the folder, and the missing parents with it.
Mkdirs(under) ==
  /\ made' = made \cup {"out"} \cup (IF under /\ ~dirExists THEN {"in"} ELSE {})
  /\ dirExists' = (dirExists \/ under)
  /\ entries' = IF under THEN entries \cup {OutEntry} ELSE entries

(***************************************************************************)
(* mkpdf: main.                                                            *)
(***************************************************************************)
\* Lines 37-79: the prompts, os.makedirs, os.listdir and the filter.
MkSetup ==
  /\ tool = "mkpdf" /\ pc = "start"
  /\ \E choice \in Choices, extensions_input \in ExtInputs,
        under \in BOOLEAN, elsewhere \in BOOLEAN, mk_ok \in BOOLEAN :
       LET exts == LowerAll(IF choice = "4" THEN CustomExt(extensions_input)
                            ELSE FormatExt(choice))
       IN
       /\ extensions' = exts
       /\ IF OutExists(under, elsewhere)
            THEN UNCHANGED fsVars
            ELSE IF mk_ok THEN Mkdirs(under) ELSE UNCHANGED fsVars
       /\ IF ~OutExists(under, elsewhere) /\ ~mk_ok
            THEN /\ RaiseException("OSError")
                 /\ UNCHANGED << files, report >>
            ELSE IF ~dirExists'
            THEN /\ RaiseException("FileNotFoundError")
                 /\ UNCHANGED << files, report >>
            ELSE \E listing \in Enumerations(Names(entries')) :
                   /\ files' = TargetFiles(listing, exts)
                   /\ IF files' = << >>
                        THEN report' = "not_found" /\ Return
                        ELSE /\ report' = "found"
                             /\ pc' = "mk_confirm"
                             /\ UNCHANGED exitVars
  /\ UNCHANGED << tool, selVars, loopVars, appVars, tally >>

\* Lines 84 and 94-95: Confirm.ask.
MkConfirm ==
  /\ tool = "mkpdf" /\ pc = "mk_confirm"
  /\ \E answer \in BOOLEAN :
       IF answer
         THEN pc' = "loop" /\ UNCHANGED << report, exitVars >>
         ELSE report' = "cancelled" /\ Return
  /\ UNCHANGED << tool, fsVars, listVars, selVars, loopVars, appVars, tally >>

\* What one call of convert_file_to_md reports, lines 21-28: subprocess.run
\* with check=True raises on a non-zero exit and on a launch failure, and
\* "except Exception" turns both into False.
ReportsSuccess(outcome) == outcome = "ok"

\* Lines 88-91: one iteration of the batch loop.  KeyboardInterrupt is no
\* Exception, so it leaves convert_file_to_md and main.
MkConvert ==
  /\ tool = "mkpdf" /\ pc = "loop" /\ i <= Len(files)
  /\ \E outcome \in {"ok", "error", "interrupt"} :
       /\ invoked' = Append(invoked, files[i])
       /\ IF outcome = "interrupt"
            THEN /\ RaiseKeyboardInterrupt
                 /\ UNCHANGED << i, success_count, results >>
            ELSE /\ results' = Append(results, ReportsSuccess(outcome))
                 /\ success_count' = success_count + (IF ReportsSuccess(outcome) THEN 1 ELSE 0)
                 /\ i' = i + 1
                 /\ UNCHANGED << pc, exitVars >>
  /\ UNCHANGED << tool, fsVars, listVars, selVars, report, advanced, appVars, tally >>

\* Line 93: the summary after the loop.
MkSummary ==
  /\ tool = "mkpdf" /\ pc = "loop" /\ i > Len(files)
  /\ tally' = << success_count, Len(files) >>
  /\ report' = "tally"
  /\ Return
  /\ UNCHANGED << tool, fsVars, listVars, selVars, loopVars, appVars >>

(***************************************************************************)
(* ppt2pdf: main up to the batch loop, with select_ppt_files.              *)
(***************************************************************************)
\* Lines 122-132 and 40-54: the directory prompt, get_ppt_files, the empty
\* check, and the table select_ppt_files prints before its first prompt.
PptStart ==
  /\ tool = "ppt2pdf" /\ pc = "start"
  /\ extensions' = << PptxPattern >>
  /\ files' = get_ppt_files(dirExists, entries)
  /\ IF files' = << >>
       THEN report' = "not_found" /\ Return
       ELSE pc' = "sel_prompt" /\ report' = "table" /\ UNCHANGED exitVars
  /\ UNCHANGED << tool, fsVars, selVars, loopVars, appVars, tally >>

\* Lines 57-59: Prompt.ask returns the operator's line.
SelectRead ==
  /\ tool = "ppt2pdf" /\ pc = "sel_prompt"
  /\ \E text \in Inputs : selection' = text
  /\ pc' = "sel_parse"
  /\ UNCHANGED << tool, fsVars, listVars, selected_files, report, loopVars,
                  appVars, exitVars, tally >>

\* Lines 61-73: the rest of one iteration of the while loop.  A rejected
\* text is dead once the loop continues (line 57 overwrites it), so it is
\* cleared here.
SelectProcess ==
  /\ tool = "ppt2pdf" /\ pc = "sel_parse"
  /\ IF IsSelectAll(selection)
       THEN /\ selected_files' = files
            /\ pc' = "sel_return"
            /\ UNCHANGED << selection, report >>
       ELSE IF RaisesValueError(selection)
       THEN /\ report' = "format_error"
            /\ pc' = "sel_prompt"
            /\ selection' = << >>
            /\ UNCHANGED selected_files
       ELSE LET picked == Pick(files, IndicesOf(selection)) IN
            IF IsEmptySelection(picked)
              THEN /\ report' = "none_valid"
                   /\ pc' = "sel_prompt"
                   /\ selection' = << >>
                   /\ UNCHANGED selected_files
              ELSE /\ selected_files' = picked
                   /\ pc' = "sel_return"
                   /\ UNCHANGED << selection, report >>
  /\ UNCHANGED << tool, fsVars, listVars, loopVars, appVars, exitVars, tally >>

\* Lines 134-145: the empty check, the echo of the selection, Confirm.ask.
\* The selector's local variable is gone once it has returned.
PptConfirm ==
  /\ tool = "ppt2pdf" /\ pc = "sel_return"
  /\ selection' = << >>
  /\ IF selected_files = << >>
       THEN Return /\ UNCHANGED report
       ELSE \E answer \in BOOLEAN :
              IF answer
                THEN pc' = "ask_out" /\ report' = "selected" /\ UNCHANGED exitVars
                ELSE report' = "cancelled" /\ Return
  /\ UNCHANGED << tool, fsVars, listVars, selected_files, loopVars, appVars, tally >>

\* Lines 148-149: the output prompt and output_dir.mkdir.
PptMakeOutput ==
  /\ tool = "ppt2pdf" /\ pc = "ask_out"
  /\ \E under \in BOOLEAN, elsewhere \in BOOLEAN, mk_ok \in BOOLEAN :
       IF OutExists(under, elsewhere)
         THEN pc' = "loop" /\ UNCHANGED << fsVars, report, exitVars >>
         ELSE IF mk_ok
         THEN Mkdirs(under) /\ pc' = "loop" /\ UNCHANGED << report, exitVars >>
         ELSE /\ RaiseException("OSError")
              /\ report' = "error"
              /\ UNCHANGED fsVars
  /\ UNCHANGED << tool, listVars, selVars, loopVars, appVars, tally >>

\* The operator interrupts while a prompt waits for an answer.
InterruptPrompt ==
  /\ pc \in {"start", "sel_prompt", "sel_return", "ask_out", "mk_confirm"}
  /\ RaiseKeyboardInterrupt
  /\ UNCHANGED << tool, fsVars, listVars, selVars, report, loopVars, appVars, tally >>

(***************************************************************************)
(* ppt2pdf: the batch loop and convert_pptx_to_pdf.  Every COM call ends   *)
(* in one of three ways: it returns ("ok"), it raises an Exception         *)
(* ("error"), or the operator's interrupt is raised in it ("interrupt").   *)
(***************************************************************************)
Outcomes == {"ok", "error", "interrupt"}

\* What unwinds out of the outer try block for a call that did not return:
\* "except Exception" (lines 107-109) prints and re-raises an Exception;
\* KeyboardInterrupt passes it by.
Unwinds(outcome) == IF outcome = "error" THEN "Exception" ELSE "KeyboardInterrupt"

\* Lines 161-163: the loop takes the next file and calls the converter.
PptNext ==
  /\ tool = "ppt2pdf" /\ pc = "loop" /\ i <= Len(selected_files)
  /\ invoked' = Append(invoked, selected_files[i])
  /\ pc' = "create"
  /\ UNCHANGED << tool, fsVars, listVars, selVars, report, i, success_count,
                  advanced, results, appVars, exitVars, tally >>

\* Line 166: the message after the loop.
PptComplete ==
  /\ tool = "ppt2pdf" /\ pc = "loop" /\ i > Len(selected_files)
  /\ report' = "complete"
  /\ Return
  /\ UNCHANGED << tool, fsVars, listVars, selVars, loopVars, appVars, tally >>

\* Line 88: CreateObject.
CreateApp ==
  /\ pc = "create"
  /\ \E outcome \in Outcomes :
       IF outcome = "ok"
         THEN /\ powerpoint' = "app"
              /\ acquired' = acquired + 1
              /\ pc' = "visible"
              /\ UNCHANGED << pending, report >>
         ELSE /\ pending' = Unwinds(outcome)
              /\ report' = IF outcome = "error" THEN "convert_error" ELSE report
              /\ pc' = "finally"
              /\ UNCHANGED << powerpoint, acquired >>
  /\ UNCHANGED << tool, fsVars, listVars, selVars, loopVars, quit_calls,
                  exitVars, tally >>

\* Lines 90-94: the bare except swallows whatever the assignment raises.
SetVisible ==
  /\ pc = "visible"
  /\ \E outcome \in Outcomes :
       report' = IF outcome = "ok" THEN report ELSE "warning"
  /\ pc' = "open1"
  /\ UNCHANGED << tool, fsVars, listVars, selVars, loopVars, appVars,
                  exitVars, tally >>

\* Lines 97-98: Open with WithWindow=False; the bare except of line 99
\* swallows whatever it raises and line 101 tries again.
OpenWithWindow ==
  /\ pc = "open1"
  /\ \E outcome \in Outcomes :
       pc' = IF outcome = "ok" THEN "saveas" ELSE "open2"
  /\ UNCHANGED << tool, fsVars, listVars, selVars, report, loopVars, appVars,
                  exitVars, tally >>

\* A call inside the outer try only: it returns and main goes on at `next`,
\* or what it raises unwinds to the finally block.
Guarded(next) ==
  \E outcome \in Outcomes :
    IF outcome = "ok"
      THEN pc' = next /\ UNCHANGED << pending, report >>
      ELSE /\ pending' = Unwinds(outcome)
           /\ report' = IF outcome = "error" THEN "convert_error" ELSE report
           /\ pc' = "finally"

\* Line 101: Open without the hint.
OpenPlain ==
  /\ pc = "open2"
  /\ Guarded("saveas")
  /\ UNCHANGED << tool, fsVars, listVars, selVars, loopVars, powerpoint,
                  acquired, quit_calls, exitVars, tally >>

\* Line 104: SaveAs(pdf_path, 32).
SaveAs ==
  /\ pc = "saveas"
  /\ Guarded("close")
  /\ UNCHANGED << tool, fsVars, listVars, selVars, loopVars, powerpoint,
                  acquired, quit_calls, exitVars, tally >>

\* Lines 105-106: presentation.Close(), then return pdf_path.
ClosePresentation ==
  /\ pc = "close"
  /\ Guarded("finally")
  /\ UNCHANGED << tool, fsVars, listVars, selVars, loopVars, powerpoint,
                  acquired, quit_calls, exitVars, tally >>

\* A slip: Quit placed at the end of the try block, where only a
\* conversion that returns reaches it.
QuitOnReturnOnly(pp, pend) == pp # "None" /\ pend = "none"

\* Lines 112-114: the finally block calls Quit when powerpoint is set.
FinallyQuits(pp, pend) == pp # "None"

\* Lines 110-116, then what follows the call in main.  Whatever Quit raises
\* is swallowed (lines 115-116).  A conversion that returned advances the
\* progress bar and the loop (lines 164, 161); an Exception or a
\* KeyboardInterrupt leaves the loop and main.
Finally ==
  /\ pc = "finally"
  /\ quit_calls' = quit_calls + (IF FinallyQuits(powerpoint, pending) THEN 1 ELSE 0)
  /\ powerpoint' = "None"
  /\ pending' = "none"
  /\ UNCHANGED acquired
  /\ IF pending = "none"
       THEN /\ results' = Append(results, TRUE)
            /\ advanced' = advanced + 1
            /\ i' = i + 1
            /\ pc' = "loop"
            /\ UNCHANGED << report, exitVars >>
       ELSE IF pending = "Exception"
       THEN /\ results' = Append(results, FALSE)
            /\ RaiseException("ConversionError")
            /\ report' = "error"
            /\ UNCHANGED << advanced, i >>
       ELSE /\ RaiseKeyboardInterrupt
            /\ UNCHANGED << results, advanced, i, report >>
  /\ UNCHANGED << tool, fsVars, listVars, selVars, success_count, invoked, tally >>

(***************************************************************************)
(* The specification.                                                      *)
(***************************************************************************)
Next ==
  \/ MkSetup
  \/ MkConfirm
  \/ MkConvert
  \/ MkSummary
  \/ PptStart
  \/ SelectRead
  \/ SelectProcess
  \/ PptConfirm
  \/ PptMakeOutput
  \/ InterruptPrompt
  \/ PptNext
  \/ PptComplete
  \/ CreateApp
  \/ SetVisible
  \/ OpenWithWindow
  \/ OpenPlain
  \/ SaveAs
  \/ ClosePresentation
  \/ Finally

Spec == Init /\ [][Next]_vars

(***************************************************************************)
(* Vocabulary of the properties.                                           *)
(***************************************************************************)
\* The run is over, it had handed at least one file to the converter, and
\* the operator did not interrupt it.
BatchEnded == pc = "exit" /\ invoked # << >> /\ exc # "KeyboardInterrupt"

\* The directory has been listed and filtered.
Listed == report # "none"

\* Number of converter calls that reported success.
Successes == Cardinality({ k \in 1..Len(results) : results[k] })

\* The count of successes the tool keeps.
Succeeded == IF tool = "mkpdf" THEN success_count ELSE advanced

\* The typed text is a comma-separated list of integers.
IsIntegerList(sel) ==
  LET toks == Split(sel) IN \A k \in 1..Len(toks) : IsIntLiteral(toks[k])

\* The positions of the typed list whose index lies in [1, n].
InRange(sel, n) ==
  LET toks == Split(sel) IN
    { k \in 1..Len(toks) : 1 <= IntOf(toks[k]) /\ IntOf(toks[k]) <= n }

\* The j-th smallest member of a set of positions.
Nth(S, j) == CHOOSE k \in S : Cardinality({ m \in S : m <= k }) = j

Zero == << "0" >>
AllWord == << "a", "l", "l" >>

\* The typed text is a valid selection for n candidates.
ValidSelection(sel, n) ==
  \/ sel = Zero
  \/ IsIntegerList(sel) /\ InRange(sel, n) # {}

(***************************************************************************)
(* C1.  A conversion failure for one file never aborts the batch: whenever *)
(* a run that started its batch is over (and was not interrupted), the     *)
(* converter has been invoked once for every selected file, in order, and  *)
(* the final summary has been printed.                                     *)
(***************************************************************************)
C1_BatchNeverAborts ==
  BatchEnded => invoked = Batch /\ report \in {"tally", "complete"}

(***************************************************************************)
(* C2.  Every PowerPoint instance acquired by convert_pptx_to_pdf has had  *)
(* Quit called on it when that file's conversion is left, on every path:   *)
(* at most one instance is alive, it is the one the running conversion     *)
(* holds, and none is alive when the next conversion acquires its own or   *)
(* when the run is over.                                                   *)
(***************************************************************************)
C2_AppReleased ==
  /\ Alive \in {0, 1}
  /\ (Alive = 1) <=> (powerpoint = "app")
  /\ pc \notin {"visible", "open1", "open2", "saveas", "close", "finally"}
       => Alive = 0 /\ powerpoint = "None"

\* The second file's export raised, and both instances were released.
C2_Witness ==
  pc = "exit" /\ exc = "ConversionError" /\ acquired = 2 /\ quit_calls = 2

(***************************************************************************)
(* C3.  When select_ppt_files returns on a comma-separated list of         *)
(* integers other than the sentinel "0", the selection is exactly          *)
(* files[i-1] for each typed index i with 1 <= i <= N, in the order typed, *)
(* duplicates kept, every other index dropped.                             *)
(***************************************************************************)
C3_SelectionResolved ==
  (pc = "sel_return" /\ selection # Zero /\ IsIntegerList(selection)) =>
    LET toks == Split(selection)
        kept == InRange(selection, Len(files))
    IN /\ Len(selected_files) = Cardinality(kept)
       /\ \A j \in 1..Len(selected_files) :
            selected_files[j] = files[IntOf(toks[Nth(kept, j)])]

\* A returned selection in which an out-of-range index was dropped.
C3_Witness ==
  /\ pc = "sel_return" /\ selection # Zero
  /\ Len(selected_files) >= 1
  /\ Len(selected_files) < Len(Split(selection))

C5_RepromptUntilValid ==
  [][ (pc = "sel_parse" /\ files # << >>) =>
        IF ValidSelection(selection, Len(files))
          THEN pc' = "sel_return" /\ selected_files' # << >>
          ELSE /\ pc' = "sel_prompt"
               /\ report' \in {"format_error", "none_valid"}
               /\ files' = files
               /\ exc' = "none" /\ exit_code' = NotExited ]_vars

\* The selector returned after it had rejected an input whose indices were
\* all out of range.
C5_Witness ==
  pc = "sel_return" /\ report = "none_valid" /\ selected_files # << >>

(***************************************************************************)
(* C6.  The candidate list holds exactly the regular files directly in the *)
(* directory whose lower-cased name ends with a lower-cased member of the  *)
(* extension set: no other name, no folder.                                *)
(***************************************************************************)
C6_ExactlyMatchingFiles ==
  Listed =>
    { files[k] : k \in 1..Len(files) } =
      { e.name : e \in { d \in entries :
           /\ d.kind = "file"
           /\ \E x \in 1..Len(extensions) :
                EndsWith(Lower(d.name), Lower(extensions[x])) } }

(***************************************************************************)
(* C7.  The batch run ends with a tally: total is the number of selected   *)
(* files, succeeded the number of converter calls that reported success;   *)
(* and throughout 0 <= succeeded <= files processed <= total.              *)
(***************************************************************************)
C7_TallyAtEnd ==
  /\ 0 <= Succeeded /\ Succeeded <= Len(results) /\ Len(results) <= Len(Batch)
  /\ BatchEnded =>
       /\ report \in {"tally", "complete"}
       /\ Len(results) = Len(Batch)
       /\ Succeeded = Successes

(***************************************************************************)
(* C8.  A run that ends in a setup error (no such directory, no matching   *)
(* file, output folder not creatable) has done no partial work: no         *)
(* converter call, and no directory created.                               *)
(***************************************************************************)
C8_SetupErrorNoPartialWork ==
  (pc = "exit" /\ (report = "not_found" \/ exc \in {"OSError", "FileNotFoundError"}))
    => invoked = << >> /\ made = {}

(***************************************************************************)
(* C9.  The candidate list is ordered by name, whatever order the          *)
(* operating system enumerates the directory in.                           *)
(***************************************************************************)
C9_ListOrderedByName ==
  Listed => \A j, k \in 1..Len(files) : j < k => PathLess(files[j], files[k])

(***************************************************************************)
(* C10.  An operator interrupt is caught at the outermost scope: the       *)
(* cancellation notice is printed, no stack trace is shown, and the exit   *)
(* status is non-zero.                                                     *)
(***************************************************************************)
C10_InterruptCaught ==
  exc = "KeyboardInterrupt" => notice /\ ~traceback /\ exit_code # 0

====
